---- MODULE Spec2Model ----
(***************************************************************************)
(* fmu.ensemble: the VirtualEnsemble keyed data store (virtualensemble.py) *)
(* and the Observations mismatch computation (observations.py).            *)
(*                                                                         *)
(* Python strings are sequences of one-character strings, so that          *)
(* os.path.basename, str.split, ''.join, re.match and fnmatch are computed *)
(* character by character.  A dataframe is a record [cols, rows]: cols is  *)
(* the sequence of column names, rows a sequence of functions from column  *)
(* name to an integer value.  The code is Python 2 (map() and filter()     *)
(* return lists, dict.keys() returns a list copy, cmp() exists).           *)
(***************************************************************************)
EXTENDS Integers, Sequences, FiniteSets, TLC

VARIABLES data, ret, observations, obsorder, mm

storevars == <<data, ret>>
obsvars == <<observations, obsorder, mm>>
vars == <<data, ret, observations, obsorder, mm>>

----------------------------------------------------------------------------
(* Bounds of the model *)

\* the number of keys a store holds
MaxKeys == 2

----------------------------------------------------------------------------
(* Sequences and sets *)

SetMax(S) == CHOOSE x \in S : \A y \in S : y <= x

SetMin(S) == CHOOSE x \in S : \A y \in S : x <= y

Range(s) == {s[i] : i \in 1..Len(s)}

RECURSIVE SortedSeq(_)
\* the elements of a set of integers, ascending
SortedSeq(S) ==
  IF S = {} THEN <<>> ELSE <<SetMin(S)>> \o SortedSeq(S \ {SetMin(S)})

RECURSIVE SeqSum(_)
SeqSum(s) == IF s = <<>> THEN 0 ELSE Head(s) + SeqSum(Tail(s))

Abs(x) == IF x < 0 THEN -x ELSE x

\* the elements of s that satisfy membership in S, in the order of s
RECURSIVE Select(_, _)
Select(s, S) ==
  IF s = <<>> THEN <<>>
  ELSE (IF Head(s) \in S THEN <<Head(s)>> ELSE <<>>) \o Select(Tail(s), S)

\* the number of places of s that hold x
CountIn(s, x) == Cardinality({i \in 1..Len(s) : s[i] = x})

----------------------------------------------------------------------------
(* Python string functions *)

\* os.path.basename: what follows the last "/"
Basename(x) ==
  LET slashes == {i \in 1..Len(x) : x[i] = "/"}
  IN  IF slashes = {} THEN x ELSE SubSeq(x, SetMax(slashes) + 1, Len(x))

RECURSIVE Split(_, _)
\* x.split(sep) for a one-character separator
Split(x, sep) ==
  LET at == {i \in 1..Len(x) : x[i] = sep}
  IN  IF at = {} THEN <<x>>
      ELSE <<SubSeq(x, 1, SetMin(at) - 1)>>
           \o Split(SubSeq(x, SetMin(at) + 1, Len(x)), sep)

RECURSIVE Join(_)
\* ''.join(parts)
Join(parts) == IF parts = <<>> THEN <<>> ELSE Head(parts) \o Join(Tail(parts))

\* ''.join(x.split('.')[:-1])
NoExt(x) ==
  LET parts == Split(x, ".") IN Join(SubSeq(parts, 1, Len(parts) - 1))

\* ''.join(os.path.basename(x).split('.')[:-1])
BasenameNoExt(x) == NoExt(Basename(x))

----------------------------------------------------------------------------
(* Names *)

REAL == <<"R", "E", "A", "L">>
DATE == <<"D", "A", "T", "E">>
PORO == <<"P", "O", "R", "O">>
FOPT == <<"F", "O", "P", "T">>
FOPR == <<"F", "O", "P", "R">>

\* the keys the model stores tables under
K_xa == <<"x", "/", "a">>
K_xacsv == <<"x", "/", "a", ".", "c", "s", "v">>
K_acsv == <<"a", ".", "c", "s", "v">>
K_yacsv == <<"y", "/", "a", ".", "c", "s", "v">>
K_abc == <<"a", ".", "b", ".", "c">>
K_parameters == <<"p", "a", "r", "a", "m", "e", "t", "e", "r", "s", ".", "t", "x", "t">>
K_monthly == <<"u", "n", "s", "m", "r", "y", "-", "m", "o", "n", "t", "h", "l", "y">>
K_yearly == <<"u", "n", "s", "m", "r", "y", "-", "y", "e", "a", "r", "l", "y">>
K_daily == <<"u", "n", "s", "m", "r", "y", "-", "d", "a", "i", "l", "y">>

KeyPool == {K_xa, K_xacsv, K_acsv, K_yacsv, K_abc, K_parameters}

----------------------------------------------------------------------------
(* Dataframes *)

Row2(c1, v1, c2, v2) == (c1 :> v1) @@ (c2 :> v2)

\* a scalar table with one row for each of the realizations 0 and 1
DfPoro01 ==
  [cols |-> <<REAL, PORO>>,
   rows |-> <<Row2(REAL, 0, PORO, 10), Row2(REAL, 1, PORO, 30)>>]

\* a scalar table that has realization 0 only
DfPoro0 == [cols |-> <<REAL, PORO>>, rows |-> <<Row2(REAL, 0, PORO, 20)>>]

SmryRow(r, d, t, p) == (REAL :> r) @@ (DATE :> d) @@ (FOPT :> t) @@ (FOPR :> p)

\* a time series table: realizations 0 and 1 at the dates 1 and 2
DfSmry ==
  [cols |-> <<REAL, DATE, FOPT, FOPR>>,
   rows |-> <<SmryRow(0, 1, 10, 5), SmryRow(0, 2, 30, 7),
              SmryRow(1, 1, 20, 5), SmryRow(1, 2, 50, 9)>>]

\* a dataframe without the REAL column
DfNoReal == [cols |-> <<PORO>>, rows |-> <<(PORO :> 10)>>]

\* the scalar table of the realizations 0..4 with the values 10, 20, .., 50
DfPoro5 ==
  [cols |-> <<REAL, PORO>>,
   rows |-> [i \in 1..5 |-> Row2(REAL, i - 1, PORO, 10 * i)]]

DfPool == {DfPoro01, DfPoro0}

\* what a caller may hand to append: dataframes, and an object that is none
AppendPool ==
  {[isdf |-> TRUE, df |-> d] : d \in DfPool \cup {DfNoReal}}
  \cup {[isdf |-> FALSE, df |-> DfPoro0]}

\* data[data[col] != v]
RowsWhereNot(df, col, v) ==
  [df EXCEPT !.rows = Select(df.rows, {r \in Range(df.rows) : r[col] # v})]

\* data.drop(columns=col)
DropColumn(df, col) ==
  LET keep == Range(df.cols) \ {col}
  IN  [cols |-> Select(df.cols, keep),
       rows |-> [i \in 1..Len(df.rows) |-> [c \in keep |-> df.rows[i][c]]]]

----------------------------------------------------------------------------
(* Results of a call *)

NoCall == [op |-> "none"]

Ok(v) == [ok |-> TRUE, value |-> v]

Raise(e) == [ok |-> FALSE, error |-> e]

----------------------------------------------------------------------------
(* VirtualEnsemble.get_df *)

\* the stored keys whose basename is s
ByBasename(d, s) == {k \in DOMAIN d : Basename(k) = s}

\* the stored keys that are s once ''.join(x.split('.')[:-1]) is applied
ByNoExt(d, s) == {k \in DOMAIN d : NoExt(k) = s}

\* the stored keys whose basename is s once the same is applied to it
ByBasenameNoExt(d, s) == {k \in DOMAIN d : BasenameNoExt(k) = s}

TheOne(S) == CHOOSE k \in S : TRUE

get_df(d, localpath) ==
  IF localpath \in DOMAIN d THEN Ok(d[localpath])
  ELSE IF Cardinality(ByBasename(d, localpath)) = 1
       THEN Ok(d[TheOne(ByBasename(d, localpath))])
  ELSE IF Cardinality(ByNoExt(d, localpath)) = 1
       THEN Ok(d[TheOne(ByNoExt(d, localpath))])
  ELSE IF Cardinality(ByBasenameNoExt(d, localpath)) = 1
       THEN Ok(d[TheOne(ByBasenameNoExt(d, localpath))])
  ELSE Raise("ValueError")

\* VirtualEnsemble.shortcut2path: no test for localpath being a key itself
shortcut2path(d, shortpath) ==
  IF Cardinality(ByBasename(d, shortpath)) = 1
  THEN TheOne(ByBasename(d, shortpath))
  ELSE IF Cardinality(ByNoExt(d, shortpath)) = 1
       THEN TheOne(ByNoExt(d, shortpath))
  ELSE IF Cardinality(ByBasenameNoExt(d, shortpath)) = 1
       THEN TheOne(ByBasenameNoExt(d, shortpath))
  ELSE shortpath

----------------------------------------------------------------------------
(* The store's operations *)

\* the caller is between two calls
Idle == ret = NoCall

\* an append that sets the key whether or not it is in the store
append_always_sets(d, key, obj, overwrite) ==
  IF ~obj.isdf \/ REAL \notin Range(obj.df.cols)
  THEN [res |-> Raise("ValueError"), data |-> d]
  ELSE [res |-> Ok("set"),
        data |-> [k \in DOMAIN d \cup {key} |-> IF k = key THEN obj.df ELSE d[k]]]

\* append(key, dataframe, overwrite) on the store d: the result and the store
\* it leaves
append(d, key, obj, overwrite) ==
  IF ~obj.isdf THEN [res |-> Raise("ValueError"), data |-> d]
  ELSE IF REAL \notin Range(obj.df.cols)
       THEN [res |-> Raise("ValueError"), data |-> d]
  ELSE IF key \in DOMAIN d /\ ~overwrite
       THEN [res |-> Ok("ignored"), data |-> d]
  ELSE [res |-> Ok("set"),
        data |-> [k \in DOMAIN d \cup {key} |-> IF k = key THEN obj.df ELSE d[k]]]

\* VirtualEnsemble.append(key, dataframe, overwrite)
AppendDf(key, obj, overwrite) ==
  /\ Idle
  /\ LET r == append(data, key, obj, overwrite)
     IN  /\ Cardinality(DOMAIN r.data) <= MaxKeys
         /\ data' = r.data
         /\ ret' = [op |-> "append", key |-> key, obj |-> obj,
                    overwrite |-> overwrite, res |-> r.res, before |-> data]
  /\ UNCHANGED obsvars

RECURSIVE RemoveAll(_, _)
\* the loop of remove_data over the list localpaths
RemoveAll(d, localpaths) ==
  IF localpaths = <<>> THEN d
  ELSE LET p == Head(localpaths)
           d1 == IF p \in DOMAIN d THEN [k \in DOMAIN d \ {p} |-> d[k]] ELSE d
       IN  RemoveAll(d1, Tail(localpaths))

\* VirtualEnsemble.remove_data(localpaths).  arg is [islist, v]: v is the list,
\* or the list [localpaths] the code makes of an argument that is none
RemoveData(arg) ==
  /\ Idle
  /\ data' = RemoveAll(data, arg.v)
  /\ ret' = [op |-> "remove_data", res |-> Ok("none"), before |-> data]
  /\ UNCHANGED obsvars

\* VirtualEnsemble.get_df(localpath), called
GetDf(localpath) ==
  /\ Idle
  /\ ret' = [op |-> "get_df", arg |-> localpath, res |-> get_df(data, localpath)]
  /\ UNCHANGED <<data, obsvars>>

\* the caller takes the result of the call
Return ==
  /\ ~Idle
  /\ ret' = NoCall
  /\ UNCHANGED <<data, obsvars>>

----------------------------------------------------------------------------
(* VirtualEnsemble.remove_realizations *)

RECURSIVE RemoveEach(_, _)
\* the double loop: for every index to delete, every table keeps its rows of
\* another REAL
RemoveEach(d, indices) ==
  IF indices = {} THEN d
  ELSE LET realindex == CHOOSE i \in indices : TRUE
       IN  RemoveEach([k \in DOMAIN d |-> RowsWhereNot(d[k], REAL, realindex)],
                      indices \ {realindex})

\* the REAL values of a dataframe
RealsOf(df) == {df.rows[i][REAL] : i \in 1..Len(df.rows)}

\* remove_realizations on the store d.  realindices is [islist, v]: v is the
\* list, or the list [realindices] the code makes of an argument that is none.
\* self.parameters is self.data['parameters.txt']: a KeyError without it.
remove_realizations(d, realindices) ==
  LET given == Range(realindices.v)
  IN  IF K_parameters \notin DOMAIN d THEN [res |-> Raise("KeyError"), data |-> d]
      ELSE LET indicesknown == RealsOf(d[K_parameters])
               indicestodelete == given \cap indicesknown
           IN  [res |-> Ok("none"), data |-> RemoveEach(d, indicestodelete)]

RemoveRealizations(realindices) ==
  /\ Idle
  /\ LET r == remove_realizations(data, realindices)
     IN  /\ data' = r.data
         /\ ret' = [op |-> "remove_realizations", res |-> r.res,
                    indices |-> Range(realindices.v),
                    before |-> data]
  /\ UNCHANGED obsvars

----------------------------------------------------------------------------
(* VirtualEnsemble.agg *)

M_mean == <<"m", "e", "a", "n">>
M_median == <<"m", "e", "d", "i", "a", "n">>
M_min == <<"m", "i", "n">>
M_max == <<"m", "a", "x">>
M_std == <<"s", "t", "d">>
M_var == <<"v", "a", "r">>
M_sum == <<"s", "u", "m">>

supported_aggs == {M_mean, M_median, M_min, M_max, M_std, M_var}

Digits == <<"0", "1", "2", "3", "4", "5", "6", "7", "8", "9">>

IsDigit(c) == c \in Range(Digits)

\* int() of one digit
DigitValue(c) == (CHOOSE i \in 1..Len(Digits) : Digits[i] = c) - 1

\* re.compile(r'p(\d\d)').match(aggregation): a match at the start of the
\* string, whatever follows
quantilematcher(aggregation) ==
  /\ Len(aggregation) >= 3
  /\ aggregation[1] = "p"
  /\ IsDigit(aggregation[2])
  /\ IsDigit(aggregation[3])

\* int(quantilematcher.match(aggregation).group(1))
QuantileNumber(aggregation) ==
  10 * DigitValue(aggregation[2]) + DigitValue(aggregation[3])

\* the level without the inversion: quantile/100.0, in percent
QuantileLevelNotInverted(quantile) == quantile

\* 1 - quantile/100.0, in percent
QuantileLevel(quantile) == 100 - quantile

RECURSIVE SortValues(_)
\* the values of a sequence, ascending, repeated values kept
SortValues(s) ==
  IF s = <<>> THEN <<>>
  ELSE LET m == SetMin(Range(s))
           at == SetMin({i \in 1..Len(s) : s[i] = m})
       IN  <<m>> \o SortValues(SubSeq(s, 1, at - 1) \o SubSeq(s, at + 1, Len(s)))

\* pandas' quantile of the values at level q percent (linear interpolation
\* between the two nearest ranks), times 100
QuantileTimes100(vals, q) ==
  LET s == SortValues(vals)
      pos == (Len(s) - 1) * q
      lo == pos \div 100
      frac == pos % 100
  IN  IF frac = 0 THEN 100 * s[lo + 1]
      ELSE 100 * s[lo + 1] + frac * (s[lo + 2] - s[lo + 1])

\* what pandas is asked to compute over the values of one column of one group:
\* the quantile at level q percent, or the aggregation named how
QuantileCell(q, vals) ==
  [stat |-> "quantile", q |-> q, how |-> <<>>, vals |-> vals,
   times100 |-> IF vals = <<>> THEN 0 ELSE QuantileTimes100(vals, q)]

AggCell(how, vals) ==
  [stat |-> "agg", q |-> -1, how |-> how, vals |-> vals, times100 |-> 0]

\* aggobject.quantile(1 - quantile/100.0) or aggobject.agg(aggregation)
Cell(aggregation, vals) ==
  IF quantilematcher(aggregation)
  THEN QuantileCell(QuantileLevel(QuantileNumber(aggregation)), vals)
  ELSE AggCell(aggregation, vals)

groupbycolumncandidates ==
  <<DATE, <<"F", "I", "P", "N", "U", "M">>, <<"Z", "O", "N", "E">>,
    <<"R", "E", "G", "I", "O", "N">>, <<"J", "O", "B", "I", "N", "D", "E", "X">>>>

RECURSIVE LexLeq(_, _)
\* the order of pandas' sorted group keys
LexLeq(a, b) ==
  IF a = <<>> THEN TRUE
  ELSE IF Head(a) # Head(b) THEN Head(a) < Head(b)
  ELSE LexLeq(Tail(a), Tail(b))

RECURSIVE SortedGroups(_)
SortedGroups(G) ==
  IF G = {} THEN <<>>
  ELSE LET g == CHOOSE x \in G : \A y \in G : LexLeq(x, y)
       IN  <<g>> \o SortedGroups(G \ {g})

\* the values of column c in the rows, in row order
ColumnValues(rows, c) == [i \in 1..Len(rows) |-> rows[i][c]]

\* the body of the loop of agg for one dataframe: drop REAL, group by the
\* candidates that are columns, aggregate, reset_index
Aggregate(df, aggregation) ==
  LET frame == DropColumn(df, REAL)
      groupby == Select(groupbycolumncandidates, Range(frame.cols))
      valuecols == Select(frame.cols, Range(frame.cols) \ Range(groupby))
      GroupOf(r) == [i \in 1..Len(groupby) |-> r[groupby[i]]]
      groups == SortedGroups({GroupOf(r) : r \in Range(frame.rows)})
      Members(g) == Select(frame.rows, {r \in Range(frame.rows) : GroupOf(r) = g})
      Place(c) == CHOOSE i \in 1..Len(groupby) : groupby[i] = c
  IN  IF Len(groupby) > 0
      THEN [cols |-> groupby \o valuecols,
            rows |-> [n \in 1..Len(groups) |->
                       [c \in Range(frame.cols) |->
                          IF c \in Range(groupby) THEN groups[n][Place(c)]
                          ELSE Cell(aggregation, ColumnValues(Members(groups[n]), c))]]]
      ELSE [cols |-> frame.cols,
            rows |-> <<[c \in Range(frame.cols) |->
                          Cell(aggregation, ColumnValues(frame.rows, c))]>>]

EmptyMap == [k \in {} |-> 0]

\* VirtualRealization.append(key, value): a key already there is kept
VRealAppend(vdata, key, value) ==
  IF key \in DOMAIN vdata THEN vdata
  ELSE [k \in DOMAIN vdata \cup {key} |-> IF k = key THEN value ELSE vdata[k]]

RECURSIVE AggLoop(_, _, _, _)
\* for key in keys: resolve, read, aggregate, append to the new realization
AggLoop(d, aggregation, keys, vdata) ==
  IF keys = {} THEN Ok(vdata)
  ELSE LET key == CHOOSE k \in keys : TRUE
           full == shortcut2path(d, key)
           got == get_df(d, full)
       IN  IF ~got.ok THEN got
           ELSE IF REAL \notin Range(got.value.cols) THEN Raise("KeyError")
           ELSE AggLoop(d, aggregation, keys \ {key},
                        VRealAppend(vdata, full, Aggregate(got.value, aggregation)))

\* agg on the store d.  keylist is [kind, v] with kind none, str or list: v
\* is the list, and for a str the list [keylist] the code makes of it;
\* excludekeys likewise.
agg(d, aggregation, keylist, excludekeys) ==
  IF aggregation \notin supported_aggs /\ ~quantilematcher(aggregation)
  THEN Raise("ValueError")
  ELSE LET kl == IF keylist.kind = "none" THEN <<>> ELSE keylist.v
           \* [None] excludes no key
           excluded == IF excludekeys.kind = "none" THEN {} ELSE Range(excludekeys.v)
           keys == IF kl = <<>> THEN DOMAIN d \ excluded ELSE Range(kl)
       IN  AggLoop(d, aggregation, keys, EmptyMap)

Agg(aggregation, keylist, excludekeys) ==
  /\ Idle
  /\ ret' = [op |-> "agg", mode |-> aggregation, keylist |-> keylist,
             excludekeys |-> excludekeys,
             res |-> agg(data, aggregation, keylist, excludekeys)]
  /\ UNCHANGED <<data, obsvars>>

----------------------------------------------------------------------------
(* VirtualEnsemble.get_realization *)

\* a selection that keeps every row
RowsWhereAny(df, col, v) == df

\* data[data[col] == v]
RowsWhere(df, col, v) ==
  [df EXCEPT !.rows = Select(df.rows, {r \in Range(df.rows) : r[col] = v})]

\* what get_realization hands to vreal.append for the rows of one key: the
\* dictionary of the one row (iloc[0].to_dict()), or the rows re-indexed from
\* zero; in both the REAL entry is deleted
RealizationData(realizationdata) ==
  LET dropped == DropColumn(realizationdata, REAL)
  IN  [scalar |-> Len(realizationdata.rows) = 1,
       cols |-> dropped.cols, rows |-> dropped.rows]

RECURSIVE RealizationLoop(_, _, _, _)
\* for key in self.keys(): read, select, skip or append
RealizationLoop(d, realindex, keys, vdata) ==
  IF keys = {} THEN Ok(vdata)
  ELSE LET key == CHOOSE k \in keys : TRUE
           got == get_df(d, key)
       IN  IF ~got.ok THEN got
           ELSE IF REAL \notin Range(got.value.cols) THEN Raise("KeyError")
           ELSE LET realizationdata == RowsWhere(got.value, REAL, realindex)
                IN  IF Len(realizationdata.rows) = 0
                    THEN RealizationLoop(d, realindex, keys \ {key}, vdata)
                    ELSE RealizationLoop(d, realindex, keys \ {key},
                           VRealAppend(vdata, key, RealizationData(realizationdata)))

\* get_realization(realindex) on the store d
get_realization(d, realindex) ==
  LET vreal == RealizationLoop(d, realindex, DOMAIN d, EmptyMap)
  IN  IF ~vreal.ok THEN vreal
      ELSE IF DOMAIN vreal.value # {} THEN vreal
      ELSE Raise("ValueError")

GetRealization(realindex) ==
  /\ Idle
  /\ ret' = [op |-> "get_realization", realindex |-> realindex,
             res |-> get_realization(data, realindex), before |-> data]
  /\ UNCHANGED <<data, obsvars>>

----------------------------------------------------------------------------
(* VirtualEnsemble.get_smry and get_smry_stats *)

RECURSIVE fnmatch(_, _)
\* re.compile(fnmatch.translate(pat)).match(name), for patterns of literal
\* characters, "*" and "?"
fnmatch(name, pat) ==
  IF pat = <<>> THEN name = <<>>
  ELSE IF Head(pat) = "*"
       THEN \E i \in 0..Len(name) : fnmatch(SubSeq(name, i + 1, Len(name)), Tail(pat))
  ELSE IF name = <<>> THEN FALSE
  ELSE IF Head(pat) = "?" THEN fnmatch(Tail(name), Tail(pat))
  ELSE Head(pat) = Head(name) /\ fnmatch(Tail(name), Tail(pat))

\* filter(regexp, data.columns): the columns the pattern matches, in their order
FilterColumns(cols, pat) == Select(cols, {c \in Range(cols) : fnmatch(c, pat)})

RECURSIVE GlobColumns(_, _)
\* the loop over column_keys: columns = columns + filter(regexp, data.columns)
GlobColumns(cols, column_keys) ==
  IF column_keys = <<>> THEN <<>>
  ELSE FilterColumns(cols, Head(column_keys)) \o GlobColumns(cols, Tail(column_keys))

\* data[wanted]: the columns of wanted, in that order, repeated ones repeated
SelectColumns(df, wanted) ==
  [cols |-> wanted,
   rows |-> [i \in 1..Len(df.rows) |-> [c \in Range(wanted) |-> df.rows[i][c]]]]

\* get_smry on the store d; column_keys is [isnone, v] (the default is None)
get_smry(d, column_keys, time_index) ==
  IF time_index \notin {"monthly", "yearly", "daily"} THEN Raise("ValueError")
  ELSE LET dataname == IF time_index = "monthly" THEN K_monthly
                       ELSE IF time_index = "yearly" THEN K_yearly ELSE K_daily
           got == get_df(d, dataname)
       IN  IF ~got.ok THEN got
           ELSE IF Len(got.value.rows) = 0 THEN Raise("ValueError")
           ELSE IF column_keys.isnone THEN Raise("TypeError")
           ELSE LET wanted == <<REAL, DATE>> \o GlobColumns(got.value.cols, column_keys.v)
                IN  IF Range(wanted) \subseteq Range(got.value.cols)
                    THEN Ok(SelectColumns(got.value, wanted))
                    ELSE Raise("KeyError")

GetSmry(column_keys, time_index) ==
  /\ Idle
  /\ ret' = [op |-> "get_smry", column_keys |-> column_keys,
             res |-> get_smry(data, column_keys, time_index)]
  /\ UNCHANGED <<data, obsvars>>

\* the dataframe of one column key: a row for each date, ascending, with what
\* is computed over the realizations' values at that date
SmryStatsOf(dframe, key) ==
  LET dates == SortedSeq({dframe.rows[i][DATE] : i \in 1..Len(dframe.rows)})
      At(n) == ColumnValues(Select(dframe.rows,
                 {r \in Range(dframe.rows) : r[DATE] = dates[n]}), key)
  IN  [n \in 1..Len(dates) |->
        [index |-> dates[n], name |-> key,
         mean |-> AggCell(M_mean, At(n)),
         p10 |-> QuantileCell(90, At(n)),
         p90 |-> QuantileCell(10, At(n)),
         max |-> AggCell(M_max, At(n)),
         min |-> AggCell(M_min, At(n))]]

RECURSIVE SmryStatsLoop(_, _, _)
\* for key in column_keys: groupby('DATE') needs one DATE column, [key] a column
\* of that name, and a repeated column gives values of two dimensions
SmryStatsLoop(dframe, column_keys, out) ==
  IF column_keys = <<>> THEN Ok(out)
  ELSE LET key == Head(column_keys)
       IN  IF CountIn(dframe.cols, DATE) # 1 THEN Raise("ValueError")
           ELSE IF key = DATE \/ key \notin Range(dframe.cols) THEN Raise("KeyError")
           ELSE IF CountIn(dframe.cols, key) # 1 THEN Raise("ValueError")
           ELSE SmryStatsLoop(dframe, Tail(column_keys),
                  [k \in DOMAIN out \cup {key} |->
                     IF k = key THEN SmryStatsOf(dframe, key) ELSE out[k]])

get_smry_stats(d, column_keys, time_index) ==
  LET got == get_smry(d, column_keys, time_index)
  IN  IF ~got.ok THEN got ELSE SmryStatsLoop(got.value, column_keys.v, EmptyMap)

GetSmryStats(column_keys, time_index) ==
  /\ Idle
  /\ ret' = [op |-> "get_smry_stats", column_keys |-> column_keys,
             res |-> get_smry_stats(data, column_keys, time_index)]
  /\ UNCHANGED <<data, obsvars>>

----------------------------------------------------------------------------
(* Observations: construction *)

supported_categories == {"smry", "smryh", "txt", "scalar", "rft"}

RECURSIVE CleanLoop(_, _)
\* the loop of _clean_observations over a copy of the keys: a category that
\* is not supported, or whose value is no list, is popped
CleanLoop(obs, keys) ==
  IF keys = {} THEN obs
  ELSE LET key == CHOOSE k \in keys : TRUE
           popped == [k \in DOMAIN obs \ {key} |-> obs[k]]
       IN  IF key \notin supported_categories THEN CleanLoop(popped, keys \ {key})
           ELSE IF ~obs[key].islist THEN CleanLoop(popped, keys \ {key})
           ELSE CleanLoop(obs, keys \ {key})

\* _clean_observations without the test that a category's value is a list
clean_observations_any_value(obs) ==
  LET left == [k \in DOMAIN obs \cap supported_categories |-> obs[k]]
  IN  IF DOMAIN left = {} THEN Raise("ValueError") ELSE Ok(left)

\* _clean_observations: the dictionary left, or a ValueError with none left
clean_observations(obs) ==
  LET left == CleanLoop(obs, DOMAIN obs)
  IN  IF DOMAIN left = {} THEN Raise("ValueError") ELSE Ok(left)

\* the orders a dictionary's keys() may come in
Orders(S) == {o \in [1..Cardinality(S) -> S] : Range(o) = S}

\* the object before Observations(...) is called
NotConstructed == [phase |-> "new"]

\* the object, constructed, between two calls
Ready == [phase |-> "ready"]

\* Observations(observations): input is [kind, obs], kind the type of the
\* argument (a str is the path of a yaml file, obs what yaml.load gives)
Construct(input) ==
  /\ mm = NotConstructed
  /\ IF input.kind \notin {"str", "dict"} THEN
       /\ mm' = [phase |-> "failed", input |-> input, res |-> Raise("ValueError")]
       /\ UNCHANGED <<observations, obsorder>>
     ELSE LET cleaned == clean_observations(input.obs)
          IN  IF cleaned.ok THEN
                /\ observations' = cleaned.value
                \* the order keys() gives the categories in from now on
                /\ obsorder' \in Orders(DOMAIN cleaned.value)
                /\ mm' = [phase |-> "constructed", input |-> input, res |-> Ok("none")]
              ELSE
                /\ mm' = [phase |-> "failed", input |-> input, res |-> cleaned]
                /\ UNCHANGED <<observations, obsorder>>
  /\ UNCHANGED storevars

----------------------------------------------------------------------------
(* Observations: mismatch *)

\* math.sqrt(n), kept as the number it is the root of
Sqrt(n) == [sqrtof |-> n]

\* a sign that only tells a positive difference from the others
Cmp0PositiveOnly(x) == IF x > 0 THEN 1 ELSE 0

\* cmp(x, 0)
Cmp0(x) == IF x < 0 THEN -1 ELSE IF x > 0 THEN 1 ELSE 0

\* A realization is [dicts, scalars, series]: get_df gives the dictionary of
\* a localpath or the value of a scalar key, get_smry the vectors asked for.
real_get_df(real, localpath) ==
  IF localpath \in DOMAIN real.dicts THEN [ok |-> TRUE, isdict |-> TRUE]
  ELSE IF localpath \in DOMAIN real.scalars THEN [ok |-> TRUE, isdict |-> FALSE]
  ELSE [ok |-> FALSE, isdict |-> FALSE]

\* the rows one observation unit adds to mismatches, or the error raised
UnitMismatch(real, obstype, obsunit) ==
  IF obstype = "txt" THEN
    LET got == real_get_df(real, obsunit.localpath)
    IN  IF ~got.ok THEN Raise("ValueError")
        ELSE IF ~got.isdict THEN Raise("TypeError")
        ELSE IF obsunit.key \notin DOMAIN real.dicts[obsunit.localpath]
             THEN Raise("KeyError")
        ELSE LET sim_value == real.dicts[obsunit.localpath][obsunit.key]
                 mismatch == sim_value - obsunit.value
             IN  Ok(<<[OBSTYPE |-> obstype,
                       OBSKEY |-> obsunit.localpath \o <<"/">> \o obsunit.key,
                       MISMATCH |-> mismatch, L1 |-> Abs(mismatch),
                       L2 |-> Abs(mismatch) * Abs(mismatch),
                       SIGN |-> Cmp0(mismatch)]>>)
  ELSE IF obstype = "scalar" THEN
    LET got == real_get_df(real, obsunit.key)
    IN  IF ~got.ok THEN Raise("ValueError")
        ELSE IF got.isdict THEN Raise("TypeError")
        ELSE LET sim_value == real.scalars[obsunit.key]
                 mismatch == sim_value - obsunit.value
             IN  Ok(<<[OBSTYPE |-> obstype, OBSKEY |-> obsunit.key,
                       MISMATCH |-> mismatch, L1 |-> Abs(mismatch),
                       L2 |-> Abs(mismatch) * Abs(mismatch),
                       SIGN |-> Cmp0(mismatch)]>>)
  ELSE IF obstype = "smryh" THEN
    IF obsunit.key \notin DOMAIN real.series
       \/ obsunit.histvec \notin DOMAIN real.series
    THEN Raise("KeyError")
    ELSE LET sim == real.series[obsunit.key]
             hist == real.series[obsunit.histvec]
             mismatch == [i \in 1..Len(sim) |-> sim[i] - hist[i]]
         IN  Ok(<<[OBSTYPE |-> "smryh", OBSKEY |-> obsunit.key,
                   MISMATCH |-> SeqSum(mismatch),
                   L1 |-> SeqSum([i \in 1..Len(mismatch) |-> Abs(mismatch[i])]),
                   L2 |-> Sqrt(SeqSum([i \in 1..Len(mismatch) |->
                                         mismatch[i] * mismatch[i]]))]>>)
  \* no branch for smry and rft
  ELSE Ok(<<>>)

RECURSIVE UnitsLoop(_, _, _, _)
\* for obsunit in self.observations[obstype]
UnitsLoop(real, obstype, units, rows) ==
  IF units = <<>> THEN Ok(rows)
  ELSE LET one == UnitMismatch(real, obstype, Head(units))
       IN  IF ~one.ok THEN one
           ELSE UnitsLoop(real, obstype, Tail(units), rows \o one.value)

RECURSIVE TypesLoop(_, _, _, _)
\* for obstype in self.observations.keys()
TypesLoop(obs, order, real, rows) ==
  IF order = <<>> THEN Ok(rows)
  ELSE LET some == UnitsLoop(real, Head(order), obs[Head(order)].units, rows)
       IN  IF ~some.ok THEN some ELSE TypesLoop(obs, Tail(order), real, some.value)

\* _realization_mismatch(real): the rows of pd.DataFrame(mismatches)
realization_mismatch(obs, order, real) == TypesLoop(obs, order, real, <<>>)

\* mismatches[realidx]['REAL'] = realidx
TagReal(rows, realidx) == [i \in 1..Len(rows) |-> rows[i] @@ [REAL |-> realidx]]

RECURSIVE ConcatInOrder(_, _)
\* the frames of the dictionary, one after the other in the order of keys
ConcatInOrder(frames, keys) ==
  IF keys = <<>> THEN <<>>
  ELSE LET at == CHOOSE i \in 1..Len(frames) : frames[i].realidx = Head(keys)
       IN  frames[at].rows \o ConcatInOrder(frames, Tail(keys))

\* a concatenation in the order the frames were put into the dictionary
pd_concat_insertion_order(frames) ==
  IF frames = <<>> THEN Raise("ValueError")
  ELSE Ok(ConcatInOrder(frames, [i \in 1..Len(frames) |-> frames[i].realidx]))

\* pd.concat(mismatches, axis=0, ignore_index=True) of a dictionary: the
\* frames in the order of the sorted keys.  frames holds the entries in the
\* order they were put in.
pd_concat(frames) ==
  IF frames = <<>> THEN Raise("ValueError")
  ELSE Ok(ConcatInOrder(frames,
            SortedSeq({frames[i].realidx : i \in 1..Len(frames)})))

CanCall == mm = Ready

\* mismatch(ens_or_real) for a ScratchEnsemble, up to the loop over the
\* realizations it holds in _realizations
MismatchEnsemble(realizations) ==
  /\ CanCall
  /\ mm' = [phase |-> "loop", kind |-> "ScratchEnsemble", reals |-> realizations,
            pending |-> DOMAIN realizations, frames |-> <<>>, res |-> Ok(<<>>)]
  /\ UNCHANGED <<observations, obsorder, storevars>>

\* mismatch(ens_or_real) for a VirtualEnsemble, which has no attribute
\* _realizations
MismatchVirtualEnsemble ==
  /\ CanCall
  /\ mm' = [phase |-> "done", kind |-> "VirtualEnsemble", reals |-> EmptyMap,
            pending |-> {}, frames |-> <<>>, res |-> Raise("AttributeError")]
  /\ UNCHANGED <<observations, obsorder, storevars>>

\* one turn of the loop over ens_or_real._realizations.items(), in the order
\* the dictionary gives them
MismatchStep(realidx) ==
  /\ mm.phase = "loop"
  /\ realidx \in mm.pending
  /\ LET one == realization_mismatch(observations, obsorder, mm.reals[realidx])
     IN  IF ~one.ok
         THEN mm' = [mm EXCEPT !.phase = "done", !.res = one]
         ELSE mm' = [mm EXCEPT !.pending = @ \ {realidx},
                               !.frames = @ \o <<[realidx |-> realidx,
                                                  rows |-> TagReal(one.value, realidx)]>>]
  /\ UNCHANGED <<observations, obsorder, storevars>>

\* the loop is over: return pd.concat(mismatches, ...)
MismatchConcat ==
  /\ mm.phase = "loop"
  /\ mm.pending = {}
  /\ mm' = [mm EXCEPT !.phase = "done", !.res = pd_concat(mm.frames)]
  /\ UNCHANGED <<observations, obsorder, storevars>>

\* mismatch(ens_or_real) for a ScratchRealization or a VirtualRealization
MismatchRealization(kind, real) ==
  /\ CanCall
  /\ kind \in {"ScratchRealization", "VirtualRealization"}
  /\ mm' = [phase |-> "done", kind |-> kind, reals |-> (0 :> real),
            pending |-> {}, frames |-> <<>>,
            res |-> realization_mismatch(observations, obsorder, real)]
  /\ UNCHANGED <<observations, obsorder, storevars>>

\* mismatch(ens_or_real) for any other object: the name EnsembleSet is not
\* defined in the module
MismatchOther ==
  /\ CanCall
  /\ mm' = [phase |-> "done", kind |-> "other", reals |-> EmptyMap,
            pending |-> {}, frames |-> <<>>, res |-> Raise("NameError")]
  /\ UNCHANGED <<observations, obsorder, storevars>>

\* the caller takes the object constructed, or the result of mismatch
ObsReturn ==
  /\ mm.phase \in {"constructed", "done"}
  /\ mm' = Ready
  /\ UNCHANGED <<observations, obsorder, storevars>>

----------------------------------------------------------------------------
(* The calls a caller makes *)

\* x without what follows the last "." of its basename (x itself without one)
StripExt(x) ==
  LET base == Basename(x)
      dots == {i \in 1..Len(base) : base[i] = "."}
  IN  IF dots = {} THEN x
      ELSE SubSeq(x, 1, Len(x) - Len(base) + SetMax(dots) - 1)

\* the four shorthand forms of a canonical key
ShorthandForms(k) == {k, Basename(k), StripExt(Basename(k)), StripExt(k)}

\* the strings get_df is asked for
ShorthandPool ==
  UNION {ShorthandForms(k) \cup {NoExt(k), BasenameNoExt(k)} : k \in KeyPool}
  \cup {<<"z">>}

M_p10 == <<"p", "1", "0">>
M_p90 == <<"p", "9", "0">>
M_p100 == <<"p", "1", "0", "0">>
M_p10x == <<"p", "1", "0", "x">>
M_p1 == <<"p", "1">>

ModePool == {M_mean, M_sum, M_p10, M_p100, M_p10x, M_p1}

NoneArg == [kind |-> "none", v |-> <<>>]

StrArg(s) == [kind |-> "str", v |-> <<s>>]

ListArg(l) == [kind |-> "list", v |-> l]

KeyListPool ==
  {NoneArg, ListArg(<<>>), StrArg(<<"a">>), ListArg(<<K_xacsv>>),
   ListArg(<<<<"a">>, K_xacsv>>)}

ExcludePool == {NoneArg, StrArg(K_xa), ListArg(<<K_parameters>>)}

RemoveDataPool ==
  {[islist |-> FALSE, v |-> <<k>>] : k \in KeyPool}
  \cup {[islist |-> TRUE, v |-> <<K_xa, K_acsv>>]}

\* realization indices: 0 and 1 are in the tables of the pool, 2 is in none
RealIndexPool ==
  {[islist |-> FALSE, v |-> <<i>>] : i \in 0..2}
  \cup {[islist |-> TRUE, v |-> l] : l \in {<<>>, <<0, 1>>, <<1, 2>>, <<2>>}}

\* the indices asked of get_realization
RealizationPool == 0..2

P_star == <<"*">>
P_FOPstar == <<"F", "O", "P", "*">>
P_FqPR == <<"F", "?", "P", "R">>
P_WOPR == <<"W", "O", "P", "R">>

PatternPool == {FOPT, P_FOPstar, P_star, P_FqPR, P_WOPR}

\* the lists of patterns a caller gives
MaxPatterns == 2

RECURSIVE SeqsUpTo(_, _)
SeqsUpTo(S, n) ==
  IF n = 0 THEN {<<>>}
  ELSE SeqsUpTo(S, n - 1) \cup {<<x>> \o s : x \in S, s \in SeqsUpTo(S, n - 1)}

ColumnKeysPool ==
  {[isnone |-> TRUE, v |-> <<>>]}
  \cup {[isnone |-> FALSE, v |-> l] : l \in SeqsUpTo(PatternPool, MaxPatterns)}

TimeIndexPool == {"monthly", "yearly", "weekly"}

----------------------------------------------------------------------------
(* The store: VirtualEnsemble() and the calls on it *)

Init ==
  /\ data = EmptyMap
  /\ ret = NoCall
  /\ observations = EmptyMap
  /\ obsorder = <<>>
  /\ mm = NotConstructed

Next ==
  \/ \E key \in KeyPool, obj \in AppendPool, overwrite \in BOOLEAN :
       AppendDf(key, obj, overwrite)
  \/ \E arg \in RemoveDataPool : RemoveData(arg)
  \/ \E arg \in RealIndexPool : RemoveRealizations(arg)
  \/ \E s \in ShorthandPool : GetDf(s)
  \/ \E realindex \in RealizationPool : GetRealization(realindex)
  \/ \E m \in ModePool, kl \in KeyListPool, ex \in ExcludePool : Agg(m, kl, ex)
  \/ Return

Spec == Init /\ [][Next]_vars

----------------------------------------------------------------------------
(* The store of time series: VirtualEnsemble(data=...) and the calls on it *)

\* the dictionaries the constructor is given
SmryStores ==
  {(K_monthly :> DfSmry) @@ (K_parameters :> DfPoro5),
   (K_monthly :> DfSmry) @@ (K_parameters :> DfPoro01),
   (K_yearly :> DfSmry),
   (K_monthly :> DfPoro01)}

\* "p" and two digits
QuantileModes == {<<"p", Digits[i], Digits[j]>> : i \in 1..10, j \in 1..10}

InitSmry ==
  /\ data \in SmryStores
  /\ ret = NoCall
  /\ observations = EmptyMap
  /\ obsorder = <<>>
  /\ mm = NotConstructed

NextSmry ==
  \/ \E ck \in ColumnKeysPool, ti \in TimeIndexPool : GetSmry(ck, ti)
  \/ \E ck \in ColumnKeysPool, ti \in TimeIndexPool : GetSmryStats(ck, ti)
  \/ \E m \in QuantileModes \cup ModePool, kl \in {NoneArg, StrArg(K_parameters)} :
       Agg(m, kl, NoneArg)
  \/ \E arg \in RealIndexPool : RemoveRealizations(arg)
  \/ \E realindex \in RealizationPool : GetRealization(realindex)
  \/ Return

SpecSmry == InitSmry /\ [][NextSmry]_vars

----------------------------------------------------------------------------
(* Observations(...) and the calls of mismatch *)

NPV == <<"n", "p", "v">>
FOPTH == <<"F", "O", "P", "T", "H">>

Unit(localpath, key, histvec, value) ==
  [localpath |-> localpath, key |-> key, histvec |-> histvec, value |-> value]

\* the units of each category of the mappings given to the constructor
UnitsOf(category) ==
  IF category = "txt"
  THEN <<Unit(K_parameters, PORO, <<>>, 20), Unit(K_parameters, FOPR, <<>>, 7)>>
  ELSE IF category = "scalar" THEN <<Unit(<<>>, NPV, <<>>, 30)>>
  ELSE IF category = "smryh" THEN <<Unit(<<>>, FOPT, FOPTH, 0)>>
  ELSE IF category = "smry" THEN <<Unit(<<>>, FOPT, <<>>, 12)>>
  ELSE IF category = "rft" THEN <<Unit(<<>>, <<"w", "1">>, <<>>, 3)>>
  ELSE <<>>

CategoryPool == supported_categories \cup {"misc"}

\* the number of categories of a mapping
MaxCats == 3

\* a mapping gives each of its categories a list of units, or something else
ObsMappings ==
  {[c \in {x \in CategoryPool : f[x] # "absent"} |->
      [islist |-> f[c] = "list",
       units |-> IF f[c] = "list" THEN UnitsOf(c) ELSE <<>>]] :
     f \in {g \in [CategoryPool -> {"absent", "list", "other"}] :
              Cardinality({x \in CategoryPool : g[x] # "absent"}) <= MaxCats}}

ConstructPool ==
  {[kind |-> k, obs |-> m] : k \in {"dict", "str"}, m \in ObsMappings}
  \cup {[kind |-> "list", obs |-> EmptyMap]}

\* the realizations read by mismatch
RealA ==
  [dicts |-> (K_parameters :> ((PORO :> 25) @@ (FOPR :> 7))),
   scalars |-> (NPV :> 10),
   series |-> (FOPT :> <<10, 20, 30>>) @@ (FOPTH :> <<9, 19, 29>>)]

RealB ==
  [dicts |-> (K_parameters :> ((PORO :> 15) @@ (FOPR :> 9))),
   scalars |-> (NPV :> 30),
   series |-> (FOPT :> <<10, 20>>) @@ (FOPTH :> <<12, 17>>)]

\* a realization without the field FOPR, the scalar and the history vector
RealMissing ==
  [dicts |-> (K_parameters :> (PORO :> 25)),
   scalars |-> [k \in {} |-> 0],
   series |-> (FOPT :> <<10, 20>>)]

RealPool == {RealA, RealB, RealMissing}

\* the number of realizations of an ensemble
MaxReals == 2

EnsemblePool ==
  UNION {[S -> RealPool] : S \in SUBSET (0..(MaxReals - 1))}

InitObs == Init

NextObs ==
  \/ \E input \in ConstructPool : Construct(input)
  \/ \E e \in EnsemblePool : MismatchEnsemble(e)
  \/ MismatchVirtualEnsemble
  \/ \E realidx \in 0..(MaxReals - 1) : MismatchStep(realidx)
  \/ MismatchConcat
  \/ \E kind \in {"ScratchRealization", "VirtualRealization"}, r \in RealPool :
       MismatchRealization(kind, r)
  \/ MismatchOther
  \/ ObsReturn

SpecObs == InitObs /\ [][NextObs]_vars

----------------------------------------------------------------------------
(* Properties of get_df *)

\* the stored keys that have s as one of their four shorthand forms
MatchingKeys(d, s) == {k \in DOMAIN d : s \in ShorthandForms(k)}

\* C1: get_df(s) never silently picks one key: unless exactly one stored key
\* has s as one of its four shorthand forms (none has, or two or more have),
\* the lookup fails with an error instead of returning a table.
C1_NeverPicksSilently ==
  ret.op = "get_df" =>
    (Cardinality(MatchingKeys(data, ret.arg)) # 1 => ~ret.res.ok)

\* C2: resolution is a left inverse of canonicalization: if s is a shorthand
\* form of the stored key k and of no other stored key, get_df(s) returns the
\* table stored under k, whatever the shape of k.
C2_LeftInverse ==
  ret.op = "get_df" =>
    \A k \in DOMAIN data :
      MatchingKeys(data, ret.arg) = {k} =>
        (ret.res.ok /\ ret.res.value = data[k])

----------------------------------------------------------------------------
(* Properties of remove_realizations *)

\* the rows of a dataframe whose REAL is not in indices
RowsOutside(df, indices) ==
  Select(df.rows, {r \in Range(df.rows) : r[REAL] \notin indices})

\* C3: after remove_realizations(indices) every stored table holds exactly its
\* former rows whose REAL is not in indices, whichever tables the index is
\* in, and the call raises no error (an index in no table changes nothing).
C3_RemovesExactlyTheRows ==
  ret.op = "remove_realizations" =>
    /\ ret.res.ok
    /\ DOMAIN data = DOMAIN ret.before
    /\ \A k \in DOMAIN data :
         /\ data[k].cols = ret.before[k].cols
         /\ data[k].rows = RowsOutside(ret.before[k], ret.indices)

----------------------------------------------------------------------------
(* Properties of agg *)

\* the keys agg is asked for: the given ones, each resolved to the one stored
\* key it is a shorthand form of, or else all stored keys minus excludekeys
SelectedKeys(d, keylist, excludekeys) ==
  IF keylist.v # <<>>
  THEN UNION {MatchingKeys(d, keylist.v[i]) : i \in 1..Len(keylist.v)}
  ELSE DOMAIN d \ Range(excludekeys.v)

\* C5: agg returns exactly one table for each selected key, under that key's
\* canonical name, and none with a REAL column; with keys omitted every stored
\* key that is not excluded has its own table in the result.
C5_OneTablePerSelectedKey ==
  (/\ ret.op = "agg"
   /\ ret.res.ok
   /\ \A i \in 1..Len(ret.keylist.v) :
        Cardinality(MatchingKeys(data, ret.keylist.v[i])) = 1) =>
    /\ DOMAIN ret.res.value = SelectedKeys(data, ret.keylist, ret.excludekeys)
    /\ \A k \in DOMAIN ret.res.value : REAL \notin Range(ret.res.value[k].cols)

\* the modes of the documentation: the six names, and p with two digits
DocumentedMode(mode) ==
  \/ mode \in {M_mean, M_median, M_min, M_max, M_std, M_var}
  \/ /\ Len(mode) = 3
     /\ mode[1] = "p"
     /\ IsDigit(mode[2])
     /\ IsDigit(mode[3])

\* C6: agg rejects every unsupported mode: a mode that is neither one of the
\* six names nor exactly p and two digits fails with a ValueError and gives
\* no result.
C6_RejectsUnsupportedMode ==
  (ret.op = "agg" /\ ~DocumentedMode(ret.mode)) =>
    (~ret.res.ok /\ ret.res.error = "ValueError")

\* the value cells of an aggregated table: those of the columns that are no
\* group key
ValueCells(table) ==
  {table.rows[i][c] : i \in 1..Len(table.rows),
                      c \in Range(table.cols) \ Range(groupbycolumncandidates)}

\* C7: quantile labels are inverted: agg with mode pNN asks for the quantile at
\* level 1 - NN/100 (100 - NN percent) in every cell, so p90 of the values
\* 10, 20, 30, 40, 50 is 14 and p10 is 46; and in get_smry_stats the column
\* p10 is the 0.90 quantile and p90 the 0.10 quantile of each date's values.
C7_QuantileInverted ==
  /\ (ret.op = "agg" /\ ret.res.ok /\ ret.mode \in QuantileModes) =>
       \A k \in DOMAIN ret.res.value :
         \A cell \in ValueCells(ret.res.value[k]) :
           /\ cell.stat = "quantile"
           /\ cell.q = 100 - (10 * DigitValue(ret.mode[2]) + DigitValue(ret.mode[3]))
           /\ (cell.vals = <<10, 20, 30, 40, 50>> /\ ret.mode = M_p90)
                => cell.times100 = 1400
           /\ (cell.vals = <<10, 20, 30, 40, 50>> /\ ret.mode = M_p10)
                => cell.times100 = 4600
  /\ (ret.op = "get_smry_stats" /\ ret.res.ok) =>
       \A key \in DOMAIN ret.res.value :
         \A n \in 1..Len(ret.res.value[key]) :
           LET row == ret.res.value[key][n]
           IN  /\ row.p10.stat = "quantile" /\ row.p10.q = 90
               /\ row.p90.stat = "quantile" /\ row.p90.q = 10
               /\ row.p10.vals = row.p90.vals
               /\ row.p10.times100 >= row.p90.times100

\* agg('p90') of the store that holds 10, 20, 30, 40, 50 under parameters.txt
\* has returned 14 for PORO
C7_Witness ==
  /\ ret.op = "agg"
  /\ ret.mode = M_p90
  /\ ret.res.ok
  /\ K_parameters \in DOMAIN ret.res.value
  /\ ret.res.value[K_parameters].rows[1][PORO].vals = <<10, 20, 30, 40, 50>>
  /\ ret.res.value[K_parameters].rows[1][PORO].times100 = 1400

----------------------------------------------------------------------------
(* Properties of get_smry *)

\* the columns of the table that at least one of the patterns matches
MatchedColumns(cols, column_keys) ==
  {c \in Range(cols) : \E i \in 1..Len(column_keys) : fnmatch(c, column_keys[i])}

\* C8: get_smry returns REAL and DATE followed by every column that a pattern
\* of column_keys matches, with duplicates removed: no column name is in the
\* result twice.
C8_NoColumnTwice ==
  (ret.op = "get_smry" /\ ret.res.ok) =>
    LET cols == ret.res.value.cols
    IN  /\ cols[1] = REAL
        /\ cols[2] = DATE
        /\ Range(cols) = {REAL, DATE} \cup MatchedColumns(cols, ret.column_keys.v)
        /\ \A i, j \in 1..Len(cols) : cols[i] = cols[j] => i = j

----------------------------------------------------------------------------
(* Properties of Observations *)

\* the categories of a mapping that are supported and hold a list
UsableCategories(obs) ==
  {c \in DOMAIN obs : c \in {"smry", "smryh", "txt", "scalar", "rft"} /\ obs[c].islist}

\* C9: construction from a mapping succeeds exactly when a supported category
\* with a list is left: then the set holds those categories, unchanged, and
\* nothing else; with none left (only unsupported categories, say) it fails.
C9_KeepsSupportedLists ==
  /\ mm.phase = "constructed" =>
       /\ mm.input.kind \in {"dict", "str"}
       /\ UsableCategories(mm.input.obs) # {}
       /\ DOMAIN observations = UsableCategories(mm.input.obs)
       /\ \A c \in DOMAIN observations :
            observations[c].islist /\ observations[c] = mm.input.obs[c]
  /\ (mm.phase = "failed" /\ mm.input.kind \in {"dict", "str"}) =>
       (UsableCategories(mm.input.obs) = {} /\ ~mm.res.ok)

\* a mapping with an unsupported category and a category that holds no list
\* was given, both were dropped and the object is constructed
C9_Witness ==
  /\ mm.phase = "constructed"
  /\ "misc" \in DOMAIN mm.input.obs
  /\ \E c \in DOMAIN mm.input.obs : c # "misc" /\ ~mm.input.obs[c].islist
  /\ DOMAIN observations = {"txt"}

\* whether the realization holds what the unit reads
HasSource(real, obstype, obsunit) == UnitMismatch(real, obstype, obsunit).ok

RECURSIVE RowsOfPresent(_, _, _)
\* the rows of the units of one category whose source the realization holds
RowsOfPresent(real, obstype, units) ==
  IF units = <<>> THEN <<>>
  ELSE (IF HasSource(real, obstype, Head(units))
        THEN UnitMismatch(real, obstype, Head(units)).value ELSE <<>>)
       \o RowsOfPresent(real, obstype, Tail(units))

RECURSIVE RowsOfAllPresent(_, _, _)
RowsOfAllPresent(obs, order, real) ==
  IF order = <<>> THEN <<>>
  ELSE RowsOfPresent(real, Head(order), obs[Head(order)].units)
       \o RowsOfAllPresent(obs, Tail(order), real)

\* C4: in the evaluation of one realization a unit whose source is missing
\* fails only that unit: the evaluation returns a table, which holds the row
\* of every other unit and none for that unit.
C4_MissingSourceFailsOnlyThatUnit ==
  (mm.phase = "done" /\ mm.kind \in {"ScratchRealization", "VirtualRealization"}) =>
    /\ mm.res.ok
    /\ mm.res.value = RowsOfAllPresent(observations, obsorder, mm.reals[0])

\* the number of units that give a row: those of txt, scalar and smryh
EvaluableUnits(obs) ==
  LET cats == DOMAIN obs \cap {"txt", "scalar", "smryh"}
  IN  SeqSum([i \in 1..Len(obsorder) |->
                IF obsorder[i] \in cats THEN Len(obs[obsorder[i]].units) ELSE 0])

----------------------------------------------------------------------------
(* Properties of the rows of txt and scalar units *)

\* the row a txt or scalar unit must give for the simulated value s
ExpectedRow(obstype, obskey, s, v) ==
  [OBSTYPE |-> obstype, OBSKEY |-> obskey, MISMATCH |-> s - v,
   L1 |-> IF s - v < 0 THEN v - s ELSE s - v,
   L2 |-> (s - v) * (s - v),
   SIGN |-> IF s < v THEN -1 ELSE IF s = v THEN 0 ELSE 1]

\* the rows expected of the txt and scalar units of a category, in their order
ExpectedRows(real, obstype, units) ==
  [i \in 1..Len(units) |->
     IF obstype = "txt"
     THEN ExpectedRow("txt", units[i].localpath \o <<"/">> \o units[i].key,
                      real.dicts[units[i].localpath][units[i].key], units[i].value)
     ELSE ExpectedRow("scalar", units[i].key,
                      real.scalars[units[i].key], units[i].value)]

\* the rows of a result that belong to the category
RowsOfType(rows, obstype) ==
  Select(rows, {r \in Range(rows) : r.OBSTYPE = obstype})

----------------------------------------------------------------------------
(* Properties of the categories without a branch *)

\* C12: an evaluation of one realization under observations that hold a unit
\* of the category rft does not return a table: it ends with an error that
\* signals the category.
C12_RftIsSignalled ==
  (mm.phase = "done" /\ mm.kind \in {"ScratchRealization", "VirtualRealization"}
     /\ "rft" \in DOMAIN observations /\ observations["rft"].units # <<>>) =>
    ~mm.res.ok

----------------------------------------------------------------------------
(* Properties of get_realization *)

\* the positions, in stored order, of the rows of the table with REAL = i
PositionsOf(df, i) ==
  SortedSeq({n \in 1..Len(df.rows) : df.rows[n][REAL] = i})

\* the keys of the store that have a row of the realization i
KeysWithRealization(d, i) == {k \in DOMAIN d : PositionsOf(d[k], i) # <<>>}

\* C13: get_realization(i) leaves the store as it was and fails exactly when
\* no key has a row with REAL = i; what it returns holds exactly the keys that
\* have such a row, each with exactly its rows of REAL = i in stored order and
\* without the REAL column, as a scalar mapping when it is one row.
C13_ProjectsOneRealization ==
  (ret.op = "get_realization") =>
    LET d == ret.before
        i == ret.realindex
    IN  /\ data = d
        /\ ret.res.ok <=> KeysWithRealization(d, i) # {}
        /\ ret.res.ok =>
             /\ DOMAIN ret.res.value = KeysWithRealization(d, i)
             /\ \A k \in KeysWithRealization(d, i) :
                  LET at == PositionsOf(d[k], i)
                      got == ret.res.value[k]
                  IN  /\ REAL \notin Range(got.cols)
                      /\ Range(got.cols) = Range(d[k].cols) \ {REAL}
                      /\ got.scalar <=> Len(at) = 1
                      /\ Len(got.rows) = Len(at)
                      /\ \A j \in 1..Len(at) :
                           /\ DOMAIN got.rows[j] = Range(d[k].cols) \ {REAL}
                           /\ \A c \in DOMAIN got.rows[j] :
                                got.rows[j][c] = d[k].rows[at[j]][c]

\* a realization was projected out of a store that holds other realizations
\* too: one key gave two rows, another a scalar mapping
C13_Witness ==
  /\ ret.op = "get_realization"
  /\ ret.res.ok
  /\ \E k \in DOMAIN ret.res.value :
       ~ret.res.value[k].scalar /\ Len(ret.res.value[k].rows) = 2
  /\ \E k \in DOMAIN ret.res.value : ret.res.value[k].scalar
  /\ \E k \in DOMAIN ret.before : \E n \in 1..Len(ret.before[k].rows) :
       ret.before[k].rows[n][REAL] # ret.realindex

----------------------------------------------------------------------------
(* Properties of append *)

\* what append accepts: a dataframe with a REAL column
ValidTable(obj) == obj.isdf /\ REAL \in Range(obj.df.cols)

\* C14: append of a valid table under a key the store has, without overwrite,
\* raises nothing and leaves the store as it was; with overwrite, or under a
\* new key, it sets that key's table and leaves every other key's table;
\* append of anything else raises and leaves the store as it was; and every
\* table of a store built from the empty one has a REAL column.
C14_OnlyExplicitReplacement ==
  /\ \A k \in DOMAIN data : REAL \in Range(data[k].cols)
  /\ (ret.op = "append") =>
       LET d == ret.before
       IN  /\ ~ValidTable(ret.obj) => (~ret.res.ok /\ data = d)
           /\ (ValidTable(ret.obj) /\ ret.key \in DOMAIN d /\ ~ret.overwrite) =>
                (ret.res.ok /\ data = d)
           /\ (ValidTable(ret.obj) /\ (ret.key \notin DOMAIN d \/ ret.overwrite)) =>
                /\ ret.res.ok
                /\ DOMAIN data = DOMAIN d \cup {ret.key}
                /\ data[ret.key] = ret.obj.df
                /\ \A k \in DOMAIN d \ {ret.key} : data[k] = d[k]

\* a valid table other than the stored one was appended without overwrite
\* under a key of a store of two keys
C14_Witness ==
  /\ ret.op = "append"
  /\ ValidTable(ret.obj)
  /\ ~ret.overwrite
  /\ ret.key \in DOMAIN ret.before
  /\ ret.before[ret.key] # ret.obj.df
  /\ Cardinality(DOMAIN ret.before) = 2
  /\ ret.res.ok

====
